---- MODULE Spec2Model ----
(***************************************************************************)
(* A model of pkll's engine supervisor and message transport               *)
(* (src/pkll/server.py): the binary resolver get_binary_path, the process  *)
(* registry _PROCESSES with its exit hook, and the PKLServer class.        *)
(*                                                                         *)
(* One caller thread drives the PKLServer methods; the engine children     *)
(* run as independent OS processes, so their writes and exits interleave   *)
(* with the steps of a call at its suspension points (select, wait).       *)
(***************************************************************************)
EXTENDS Integers, Sequences, FiniteSets, TLC

\* ---------------------------------------------------------------- bounds
NumServers == 2      \* PKLServer instances constructed by the program
MaxProcs == 2        \* engine processes spawned over the whole run
MaxPipe == 3         \* bytes the stdout pipe holds before a write blocks
MaxIn == 2           \* bytes the stdin pipe holds before a write blocks
MaxErr == 1          \* bytes the error pipe holds before a write blocks
MaxVal == 1          \* largest item carried by a message
MaxRetry == 2        \* largest max_retry passed to receive_with_retry
MaxIds == 2          \* ids a server hands out
MaxResolve == 2      \* get_binary_path calls in a resolver run

\* ------------------------------------------------------------- constants
None == 0            \* self._process = None: no handle
FixArray == 144      \* msgpack: 0x90 + n starts an array of n < 16 items
ErrChar == 33        \* a byte of diagnostic text on the error stream

Servers == 1..NumServers
Pids == 1..MaxProcs
Streams == {"stdout", "stderr"}

\* ---------------------------------------------------------------- msgpack
\* The protocol objects the model exchanges: arrays of small integers.
Messages == {[kind |-> "array", items |-> <<>>]}
              \cup {[kind |-> "array", items |-> <<v>>] : v \in 1..MaxVal}

\* The requests the caller sends: an operation code and nothing else.
Requests == {[kind |-> "array", items |-> <<v>>] : v \in 1..MaxVal}

\* msgpack.packb of an array of fixints: the header byte, then one byte an item.
Pack(m) == <<FixArray + Len(m.items)>> \o m.items

\* list(Unpacker) after feed(bytes): every complete object, in order; an
\* incomplete trailing object ends the iteration without an error.
RECURSIVE Unpack(_)
Unpack(bytes) ==
  IF bytes = <<>> THEN <<>>
  ELSE LET h == Head(bytes)
           n == h - FixArray
       IN IF h >= FixArray /\ n < 16
          THEN IF Len(bytes) - 1 >= n
               THEN <<[kind |-> "array", items |-> SubSeq(bytes, 2, n + 1)]>>
                      \o Unpack(SubSeq(bytes, n + 2, Len(bytes)))
               ELSE <<>>
          ELSE <<[kind |-> "int", items |-> <<h>>]>> \o Unpack(Tail(bytes))

\* A call's value: Python's None, or a list of decoded messages.
NoneResp == [isNone |-> TRUE, msgs |-> <<>>]
ListResp(ms) == [isNone |-> FALSE, msgs |-> ms]

VARIABLES
  \* the engine processes (the operating system's view)
  alive,        \* pid -> "unborn" | "running" | "exited"
  owner,        \* pid -> the server that spawned it (None while unborn)
  signals,      \* pid -> SIGTERMs delivered to the process
  hangups,      \* pid -> SIGHUPs delivered to the process
  \* the pipes of self._process, as each server reaches them
  stdin,        \* server -> bytes written by the parent, not yet read by the child
  stdout,       \* server -> bytes written by the child, not yet read by the parent
  stderr,       \* server -> error-stream bytes not yet read by the parent
  unwritten,    \* server -> the bytes of the message its engine is writing
                \* that have not reached the stdout pipe yet
  pending,      \* server -> the messages its engine wrote to stdout, in the
                \* order written, that no receive_message has returned yet
  nextPid,      \* the pid the next Popen gets
  \* module state of server.py
  PROCESSES,    \* _PROCESSES: the registry, a list of pids
  process,      \* server -> self._process (None or a pid)
  \* the caller thread
  pc,           \* "idle" | "select" | "poll" | "term_wait" | "done"
                \*   | "hook" | "hook_wait" | "exited"
  cur,          \* the call in progress or just finished: op, srv, arguments
  last,         \* outcome of the call just finished
  readable,     \* receive_message: the streams select returned
  outputs,      \* receive_message: outputs
  sink,         \* what the current receive_message call printed
  retry,        \* receive_with_retry: retry
  response,     \* receive_with_retry: response
  ncalls,       \* receive_message calls made by the current receive_with_retry
  warned,       \* receive_with_retry emitted "Max retry reached."
  hookIdx,      \* terminate_processes: position in _PROCESSES
  \* the binary resolver
  host,         \* detect_system() and is_alpine_linux() of the host
  file,         \* the local binary path: exists, mode, content
  mkdirs,       \* mkdir calls on the parent directory
  downloads,    \* downloads written to the local binary path
  chmods,       \* os.chmod calls
  rcalls,       \* get_binary_path calls made
  rok,          \* get_binary_path calls that returned a path
  rlast,        \* outcome of the last get_binary_path call
  \* request ids
  next_request_id,  \* server -> self.next_request_id
  issued        \* server -> the ids get_request_id has returned, in order

osVars == <<alive, owner, signals, nextPid>>
pipeVars == <<stdin, stdout, stderr, unwritten, pending>>
regVars == <<PROCESSES, process>>
callVars == <<pc, cur, last>>
rmVars == <<readable, outputs, sink>>
rwrVars == <<retry, response, ncalls, warned>>
resolverVars == <<host, file, mkdirs, downloads, chmods, rcalls, rok, rlast>>
idVars == <<next_request_id, issued>>
vars == <<osVars, hangups, pipeVars, regVars, callVars, rmVars, rwrVars,
          hookIdx, idVars, resolverVars>>

\* ------------------------------------------------------------------ Init
NoCall == [op |-> "none", srv |-> None, timeout |-> FALSE,
           empty_break |-> FALSE, max_retry |-> 0]
Call(op, s, t, eb, mr) == [op |-> op, srv |-> s, timeout |-> t,
                           empty_break |-> eb, max_retry |-> mr]
Returned(v) == [kind |-> "return", val |-> v]
Raised(e) == [kind |-> e, val |-> NoneResp]
NoOutcome == [kind |-> "none", val |-> NoneResp]
EmptySink == [text |-> {}, notice |-> FALSE]

\* The permission bits of the owner, and the mode open(.., "wb") creates.
OwnerBits == {"S_IRUSR", "S_IWUSR", "S_IXUSR"}
CreatedMode == {"S_IRUSR", "S_IWUSR"}
NoFile == [exists |-> FALSE, mode |-> {}, content |-> "none"]
NoResult == [kind |-> "none", name |-> "none", found |-> FALSE,
             downloaded |-> FALSE]

\* No engine process yet, an empty registry, no call in progress.
SupervisorInit ==
  /\ alive = [p \in Pids |-> "unborn"]
  /\ owner = [p \in Pids |-> None]
  /\ signals = [p \in Pids |-> 0]
  /\ hangups = [p \in Pids |-> 0]
  /\ stdin = [s \in Servers |-> <<>>]
  /\ stdout = [s \in Servers |-> <<>>]
  /\ stderr = [s \in Servers |-> <<>>]
  /\ unwritten = [s \in Servers |-> <<>>]
  /\ pending = [s \in Servers |-> <<>>]
  /\ nextPid = 1
  /\ PROCESSES = <<>>
  /\ process = [s \in Servers |-> None]
  /\ pc = "idle"
  /\ cur = NoCall
  /\ last = NoOutcome
  /\ readable = {}
  /\ outputs = <<>>
  /\ sink = EmptySink
  /\ retry = 0
  /\ response = NoneResp
  /\ ncalls = 0
  /\ warned = FALSE
  /\ hookIdx = 1
  /\ next_request_id = [s \in Servers |-> 1]
  /\ issued = [s \in Servers |-> <<>>]

\* The state after every PKLServer() of the program was constructed on a
\* supported host: __init__ resolved the binary, left _process None.
Init ==
  /\ SupervisorInit
  /\ host = [os |-> "linux", arch |-> "64bit", alpine |-> FALSE]
  /\ file = [exists |-> TRUE, mode |-> OwnerBits, content |-> "binary"]
  /\ mkdirs = 0
  /\ downloads = 0
  /\ chmods = 0
  /\ rcalls = 0
  /\ rok = 0
  /\ rlast = [kind |-> "path", name |-> "pkl-linux-amd64", found |-> TRUE,
              downloaded |-> FALSE]

\* ------------------------------------------------------- engine processes
Range(f) == {f[i] : i \in DOMAIN f}

\* pc = "done" is the instant a call returns: the caller takes the outcome
\* (Continue) before a child's next step is looked at. A child's step at
\* that instant is the same step taken right after Continue.
Running(p) == alive[p] = "running" /\ pc # "done"

\* The pipes of process p are those its server reaches through
\* self._process; the pipes of a handle the server has dropped are read by
\* nobody.
Piped(p) == process[owner[p]] = p

\* The engine writes one encoded message to its standard output, all of it
\* reaching the pipe at once.
ChildWriteStdout(p, m) ==
  /\ Running(p)
  /\ Piped(p)
  /\ unwritten[owner[p]] = <<>>
  /\ Len(stdout[owner[p]]) + Len(Pack(m)) <= MaxPipe
  /\ stdout' = [stdout EXCEPT ![owner[p]] = @ \o Pack(m)]
  /\ pending' = [pending EXCEPT ![owner[p]] = Append(@, m)]
  /\ UNCHANGED <<osVars, stdin, stderr, unwritten, regVars, callVars, rmVars,
                 rwrVars, hookIdx, idVars, hangups, resolverVars>>

\* The engine starts writing one encoded message; only its first k bytes
\* reach the pipe for now (a pipe carries bytes, not messages: a write
\* larger than the room in the pipe, or made of several write calls, is
\* seen by the reader in parts).
ChildWriteFirstPart(p, m, k) ==
  /\ Running(p)
  /\ Piped(p)
  /\ unwritten[owner[p]] = <<>>
  /\ k \in 1..(Len(Pack(m)) - 1)
  /\ Len(stdout[owner[p]]) + k <= MaxPipe
  /\ stdout' = [stdout EXCEPT ![owner[p]] = @ \o SubSeq(Pack(m), 1, k)]
  /\ unwritten' = [unwritten EXCEPT
                     ![owner[p]] = SubSeq(Pack(m), k + 1, Len(Pack(m)))]
  /\ pending' = [pending EXCEPT ![owner[p]] = Append(@, m)]
  /\ UNCHANGED <<osVars, stdin, stderr, regVars, callVars, rmVars, rwrVars,
                 hookIdx, idVars, hangups, resolverVars>>

\* The rest of the message reaches the pipe.
ChildWriteRest(p) ==
  /\ Running(p)
  /\ Piped(p)
  /\ unwritten[owner[p]] # <<>>
  /\ Len(stdout[owner[p]]) + Len(unwritten[owner[p]]) <= MaxPipe
  /\ stdout' = [stdout EXCEPT ![owner[p]] = @ \o unwritten[owner[p]]]
  /\ unwritten' = [unwritten EXCEPT ![owner[p]] = <<>>]
  /\ UNCHANGED <<osVars, stdin, stderr, pending, regVars, callVars, rmVars,
                 rwrVars, hookIdx, idVars, hangups, resolverVars>>

\* The engine writes diagnostic text to its error stream.
ChildWriteStderr(p) ==
  /\ Running(p)
  /\ Piped(p)
  /\ Len(stderr[owner[p]]) < MaxErr
  /\ stderr' = [stderr EXCEPT ![owner[p]] = Append(@, ErrChar)]
  /\ UNCHANGED <<osVars, stdin, stdout, unwritten, pending, regVars, callVars,
                 rmVars, rwrVars, hookIdx, idVars, hangups, resolverVars>>

\* The engine reads the requests waiting on its standard input.
ChildReadStdin(p) ==
  /\ Running(p)
  /\ Piped(p)
  /\ stdin[owner[p]] # <<>>
  /\ stdin' = [stdin EXCEPT ![owner[p]] = <<>>]
  /\ UNCHANGED <<osVars, stdout, stderr, unwritten, pending, regVars, callVars,
                 rmVars, rwrVars, hookIdx, idVars, hangups, resolverVars>>

\* The engine exits: on its own, or because of a SIGTERM it received. What
\* waited on its standard input has lost its reader, and what it had not
\* written yet never reaches the pipe.
ChildExit(p) ==
  /\ Running(p)
  /\ alive' = [alive EXCEPT ![p] = "exited"]
  /\ stdin' = IF Piped(p) THEN [stdin EXCEPT ![owner[p]] = <<>>] ELSE stdin
  /\ unwritten' = IF Piped(p) THEN [unwritten EXCEPT ![owner[p]] = <<>>]
                  ELSE unwritten
  /\ UNCHANGED <<owner, signals, nextPid, stdout, stderr, pending, regVars,
                 callVars, rmVars, rwrVars, hookIdx, idVars, hangups,
                 resolverVars>>

\* PopenTerminate with the liveness check lost: SIGTERM goes out every time.
PopenTerminateAlways(p) == [signals EXCEPT ![p] = @ + 1]

\* Popen.terminate(): send_signal polls first and skips a process that has
\* already exited; otherwise SIGTERM is delivered.
PopenTerminate(p) ==
  IF alive[p] = "running" THEN [signals EXCEPT ![p] = @ + 1] ELSE signals

\* ---------------------------------------------------------- PKLServer
\* A call ends: its outcome is handed to the caller.
Finish(outcome) ==
  /\ pc' = "done"
  /\ last' = outcome

\* The caller takes the outcome and goes on; the locals of the call are gone.
Continue ==
  /\ pc = "done"
  /\ pc' = "idle"
  /\ cur' = NoCall
  /\ last' = NoOutcome
  /\ readable' = {}
  /\ outputs' = <<>>
  /\ sink' = EmptySink
  /\ retry' = 0
  /\ response' = NoneResp
  /\ ncalls' = 0
  /\ warned' = FALSE
  /\ UNCHANGED <<osVars, pipeVars, regVars, hookIdx, idVars, hangups,
                 resolverVars>>

\* get_request_id returning the counter after the increment.
get_request_id_incremented(s) ==
  /\ pc = "idle"
  /\ next_request_id[s] <= MaxIds
  /\ next_request_id' = [next_request_id EXCEPT ![s] = @ + 1]
  /\ issued' = [issued EXCEPT ![s] = Append(@, next_request_id[s] + 1)]
  /\ UNCHANGED <<osVars, pipeVars, regVars, callVars, rmVars, rwrVars, hookIdx,
                 hangups, resolverVars>>

\* Lines 96-99: the counter's value is returned and the counter moves on.
get_request_id(s) ==
  /\ pc = "idle"
  /\ next_request_id[s] <= MaxIds
  /\ next_request_id' = [next_request_id EXCEPT ![s] = @ + 1]
  /\ issued' = [issued EXCEPT ![s] = Append(@, next_request_id[s])]
  /\ UNCHANGED <<osVars, pipeVars, regVars, callVars, rmVars, rwrVars, hookIdx,
                 hangups, resolverVars>>

\* Active following the child's liveness: a handle whose child has exited
\* counts as no handle.
ActiveWhileAlive(s) == process[s] # None /\ alive[process[s]] = "running"

\* Active with the test of line 102 lost: start_process always spawns.
ActiveNever(s) == FALSE

\* start_process line 102: a handle is held.
Active(s) == process[s] # None

\* check_process(): self._process is not None.
check_process(s) == process[s] # None

\* start_process; the environment handed to the child (debug) is read by
\* nothing in the program and is not part of the state.
start_process(s) ==
  /\ pc = "idle"
  /\ Active(s) \/ nextPid <= MaxProcs
  /\ cur' = Call("start_process", s, FALSE, FALSE, 0)
  /\ Finish(Returned(NoneResp))
  /\ IF Active(s)
     THEN UNCHANGED <<osVars, pipeVars, regVars>>
     ELSE /\ process' = [process EXCEPT ![s] = nextPid]
          /\ alive' = [alive EXCEPT ![nextPid] = "running"]
          /\ owner' = [owner EXCEPT ![nextPid] = s]
          /\ nextPid' = nextPid + 1
          /\ stdin' = [stdin EXCEPT ![s] = <<>>]
          /\ stdout' = [stdout EXCEPT ![s] = <<>>]
          /\ stderr' = [stderr EXCEPT ![s] = <<>>]
          /\ unwritten' = [unwritten EXCEPT ![s] = <<>>]
          /\ pending' = [pending EXCEPT ![s] = <<>>]
          /\ PROCESSES' = Append(PROCESSES, nextPid)
          /\ UNCHANGED signals
  /\ UNCHANGED <<rmVars, rwrVars, hookIdx, idVars, hangups, resolverVars>>

\* What send_message does on server s: the error it raises, or "ok"; a
\* write to the pipe of an exited child is a broken pipe.
SendOutcome(s) ==
  IF ~check_process(s) THEN "ValueError"
  ELSE IF alive[process[s]] = "exited" THEN "BrokenPipeError"
  ELSE "ok"

\* stdin.write blocks while the pipe is full.
SendEnabled(s, m) ==
  SendOutcome(s) = "ok" => Len(stdin[s]) + Len(Pack(m)) <= MaxIn

StdinAfterSend(s, m) ==
  IF SendOutcome(s) = "ok"
  THEN [stdin EXCEPT ![s] = @ \o Pack(m)]
  ELSE stdin

send_message(s, m) ==
  /\ pc = "idle"
  /\ SendEnabled(s, m)
  /\ cur' = Call("send_message", s, FALSE, FALSE, 0)
  /\ stdin' = StdinAfterSend(s, m)
  /\ Finish(IF SendOutcome(s) = "ok" THEN Returned(NoneResp)
            ELSE Raised(SendOutcome(s)))
  /\ UNCHANGED <<osVars, stdout, stderr, unwritten, pending, regVars, rmVars,
                 rwrVars, hookIdx, idVars, hangups, resolverVars>>

\* receive_message lines 142-144: the locals of a fresh call.
RmEnter ==
  /\ pc' = "select"
  /\ readable' = {}
  /\ outputs' = <<>>
  /\ sink' = EmptySink

\* receive_message returns resp to its caller, having collected the chunks
\* out. Under receive_with_retry (lines 176-181) the loop counts the
\* attempt and either calls receive_message again or warns and returns.
RmReturn(resp, sk, out) ==
  IF cur.op = "receive_with_retry"
  THEN IF resp.isNone /\ retry + 1 <= cur.max_retry
       THEN /\ RmEnter
            /\ retry' = retry + 1
            /\ response' = resp
            /\ ncalls' = ncalls + 1
            /\ UNCHANGED <<last, warned>>
       ELSE /\ Finish(Returned(resp))
            /\ retry' = retry + 1
            /\ response' = resp
            /\ warned' = (retry + 1 = cur.max_retry)
            /\ readable' = {}
            /\ outputs' = out
            /\ sink' = sk
            /\ UNCHANGED ncalls
  ELSE /\ Finish(Returned(resp))
       /\ readable' = {}
       /\ outputs' = out
       /\ sink' = sk
       /\ UNCHANGED rwrVars

\* An exception leaves receive_message; receive_with_retry and
\* send_and_receive do not catch it.
RmRaise(e, sk, out) ==
  /\ Finish(Raised(e))
  /\ readable' = {}
  /\ outputs' = out
  /\ sink' = sk
  /\ UNCHANGED rwrVars

\* RmFinish with the assertion of line 167 lost: the first chunk, if there
\* is one, is decoded.
RmFinishUnasserted(out, sk) ==
  RmReturn(ListResp(IF out = <<>> THEN <<>> ELSE Unpack(out[1])), sk, out)

\* Lines 167-171: the assertion on the collected chunks, then the decoding.
RmFinish(out, sk) ==
  IF Len(out) = 1
  THEN RmReturn(ListResp(Unpack(out[1])), sk, out)
  ELSE RmRaise("AssertionError", sk, out)

\* receive_message with check_process called without is_raise: the call goes
\* on to self._process.stdout, which raises on None.
receive_message_unchecked(s, t, eb) ==
  /\ pc = "idle"
  /\ cur' = Call("receive_message", s, t, eb, 0)
  /\ IF ~check_process(s)
     THEN /\ Finish(Raised("AttributeError"))
          /\ UNCHANGED rmVars
     ELSE /\ RmEnter
          /\ UNCHANGED last
  /\ UNCHANGED <<osVars, pipeVars, regVars, rwrVars, hookIdx, idVars, hangups,
                 resolverVars>>

receive_message(s, t, eb) ==
  /\ pc = "idle"
  /\ cur' = Call("receive_message", s, t, eb, 0)
  /\ IF ~check_process(s)
     THEN /\ Finish(Raised("ValueError"))
          /\ UNCHANGED rmVars
     ELSE /\ RmEnter
          /\ UNCHANGED last
  /\ UNCHANGED <<osVars, pipeVars, regVars, rwrVars, hookIdx, idVars, hangups,
                 resolverVars>>

send_and_receive(s, m) ==
  /\ pc = "idle"
  /\ SendEnabled(s, m)
  /\ cur' = Call("send_and_receive", s, FALSE, FALSE, 0)
  /\ stdin' = StdinAfterSend(s, m)
  /\ IF SendOutcome(s) # "ok"
     THEN /\ Finish(Raised(SendOutcome(s)))
          /\ UNCHANGED rmVars
     ELSE /\ RmEnter
          /\ UNCHANGED last
  /\ UNCHANGED <<osVars, stdout, stderr, unwritten, pending, regVars, rwrVars,
                 hookIdx, idVars, hangups, resolverVars>>

\* Lines 174-177 up to the first receive_message call (0 <= max_retry).
receive_with_retry(s, mr) ==
  /\ pc = "idle"
  /\ cur' = Call("receive_with_retry", s, FALSE, FALSE, mr)
  /\ response' = NoneResp
  /\ retry' = 0
  /\ ncalls' = 1
  /\ warned' = FALSE
  /\ IF ~check_process(s)
     THEN /\ Finish(Raised("ValueError"))
          /\ UNCHANGED rmVars
     ELSE /\ RmEnter
          /\ UNCHANGED last
  /\ UNCHANGED <<osVars, pipeVars, regVars, hookIdx, idVars, hangups,
                 resolverVars>>

\* A stream of server s's process is ready when bytes wait in its pipe or
\* its writer has exited (end of file).
Ready(s) ==
  {st \in Streams :
     \/ alive[process[s]] = "exited"
     \/ st = "stdout" /\ stdout[s] # <<>>
     \/ st = "stderr" /\ stderr[s] # <<>>}

\* A receive_message call on server s returned the messages ms: they are
\* no longer awaited.
AfterDelivery(s, ms) ==
  [pending EXCEPT ![s] = SubSeq(@, Len(ms) + 1, Len(@))]

\* Select with the empty_break test of line 148 lost: an elapsed timeout
\* falls through to the liveness check and the next wait.
SelectNoEmptyBreak ==
  /\ pc = "select"
  /\ LET s == cur.srv
         ready == Ready(s)
         gotOut == "stdout" \in ready
         gotErr == "stderr" \in ready
         out == IF gotOut THEN Append(outputs, stdout[s]) ELSE outputs
         sk == IF gotErr THEN [sink EXCEPT !.text = @ \cup Range(stderr[s])]
               ELSE sink
     IN /\ ready # {} \/ cur.timeout
        /\ stdout' = IF gotOut THEN [stdout EXCEPT ![s] = <<>>] ELSE stdout
        /\ stderr' = IF gotErr THEN [stderr EXCEPT ![s] = <<>>] ELSE stderr
        /\ pending' = IF gotOut THEN AfterDelivery(s, Unpack(stdout[s]))
                       ELSE pending
        /\ IF Len(out) > 0
           THEN RmFinish(out, sk)
           ELSE /\ pc' = "poll"
                /\ readable' = ready
                /\ outputs' = out
                /\ sink' = sk
                /\ UNCHANGED <<last, rwrVars>>
  /\ UNCHANGED <<cur, osVars, stdin, unwritten, regVars, hookIdx, idVars,
                 hangups, resolverVars>>

\* Select with the test of line 154 lost: what is read from either stream
\* is appended to outputs.
SelectBuffersStderr ==
  /\ pc = "select"
  /\ LET s == cur.srv
         ready == Ready(s)
         gotOut == "stdout" \in ready
         gotErr == "stderr" \in ready
         out1 == IF gotOut THEN Append(outputs, stdout[s]) ELSE outputs
         out == IF gotErr THEN Append(out1, stderr[s]) ELSE out1
     IN /\ ready # {} \/ cur.timeout
        /\ IF cur.empty_break /\ ready = {}
           THEN /\ RmReturn(NoneResp, sink, outputs)
                /\ UNCHANGED <<stdout, stderr, pending>>
           ELSE /\ stdout' = IF gotOut THEN [stdout EXCEPT ![s] = <<>>]
                             ELSE stdout
                /\ stderr' = IF gotErr THEN [stderr EXCEPT ![s] = <<>>]
                             ELSE stderr
                /\ pending' = IF gotOut
                              THEN AfterDelivery(s, Unpack(stdout[s]))
                              ELSE pending
                /\ IF Len(out) > 0
                   THEN RmFinish(out, sink)
                   ELSE /\ pc' = "poll"
                        /\ readable' = ready
                        /\ outputs' = out
                        /\ UNCHANGED <<last, sink, rwrVars>>
  /\ UNCHANGED <<cur, osVars, stdin, unwritten, regVars, hookIdx, idVars,
                 hangups, resolverVars>>

\* Lines 147-160, one turn of the loop up to the liveness check: select
\* returns the ready streams, or nothing once the timeout elapsed (without
\* a timeout it blocks until a stream is ready); every stream returned is
\* read, stdout bytes are collected and stderr bytes printed; a collected
\* chunk ends the loop.
Select ==
  /\ pc = "select"
  /\ LET s == cur.srv
         ready == Ready(s)
         gotOut == "stdout" \in ready
         gotErr == "stderr" \in ready
         out == IF gotOut THEN Append(outputs, stdout[s]) ELSE outputs
         sk == IF gotErr THEN [sink EXCEPT !.text = @ \cup Range(stderr[s])]
               ELSE sink
     IN /\ ready # {} \/ cur.timeout
        /\ IF cur.empty_break /\ ready = {}
           THEN /\ RmReturn(NoneResp, sink, outputs)
                /\ UNCHANGED <<stdout, stderr, pending>>
           ELSE /\ stdout' = IF gotOut THEN [stdout EXCEPT ![s] = <<>>]
                             ELSE stdout
                /\ stderr' = IF gotErr THEN [stderr EXCEPT ![s] = <<>>]
                             ELSE stderr
                /\ pending' = IF gotOut
                              THEN AfterDelivery(s, Unpack(stdout[s]))
                              ELSE pending
                /\ IF Len(out) > 0
                   THEN RmFinish(out, sk)
                   ELSE /\ pc' = "poll"
                        /\ readable' = ready
                        /\ outputs' = out
                        /\ sink' = sk
                        /\ UNCHANGED <<last, rwrVars>>
  /\ UNCHANGED <<cur, osVars, stdin, unwritten, regVars, hookIdx, idVars,
                 hangups, resolverVars>>

\* Poll with the test of line 163 lost: the loop ends after one turn.
PollEndsLoop ==
  /\ pc = "poll"
  /\ RmFinish(outputs, [sink EXCEPT !.notice = TRUE])
  /\ UNCHANGED <<cur, osVars, pipeVars, regVars, hookIdx, idVars, hangups,
                 resolverVars>>

\* Lines 162-165: a child that has exited ends the loop.
Poll ==
  /\ pc = "poll"
  /\ IF alive[process[cur.srv]] = "exited"
     THEN RmFinish(outputs, [sink EXCEPT !.notice = TRUE])
     ELSE /\ pc' = "select"
          /\ UNCHANGED <<last, rmVars, rwrVars>>
  /\ UNCHANGED <<cur, osVars, pipeVars, regVars, hookIdx, idVars, hangups,
                 resolverVars>>

\* terminate() returning quietly when there is no handle.
terminate_tolerant(s) ==
  /\ pc = "idle"
  /\ cur' = Call("terminate", s, FALSE, FALSE, 0)
  /\ IF process[s] = None
     THEN /\ Finish(Returned(NoneResp))
          /\ UNCHANGED signals
     ELSE /\ signals' = PopenTerminate(process[s])
          /\ pc' = "term_wait"
          /\ UNCHANGED last
  /\ UNCHANGED <<alive, owner, nextPid, pipeVars, regVars, rmVars, rwrVars,
                 hookIdx, idVars, hangups, resolverVars>>

\* terminate() up to its wait: without a handle the attribute access on
\* None raises; otherwise the child is signalled.
terminate(s) ==
  /\ pc = "idle"
  /\ cur' = Call("terminate", s, FALSE, FALSE, 0)
  /\ IF process[s] = None
     THEN /\ Finish(Raised("AttributeError"))
          /\ UNCHANGED signals
     ELSE /\ signals' = PopenTerminate(process[s])
          /\ pc' = "term_wait"
          /\ UNCHANGED last
  /\ UNCHANGED <<alive, owner, nextPid, pipeVars, regVars, rmVars, rwrVars,
                 hookIdx, idVars, hangups, resolverVars>>

\* TerminateReturn with the wait of line 190 lost: the handle is cleared
\* right after the signal.
TerminateReturnNoWait ==
  /\ pc = "term_wait"
  /\ process' = [process EXCEPT ![cur.srv] = None]
  /\ Finish(Returned(NoneResp))
  /\ UNCHANGED <<cur, osVars, pipeVars, PROCESSES, rmVars, rwrVars, hookIdx,
                 idVars, hangups, resolverVars>>

\* Lines 190-191: wait() returns once the child has exited; the handle is
\* cleared.
TerminateReturn ==
  /\ pc = "term_wait"
  /\ alive[process[cur.srv]] = "exited"
  /\ process' = [process EXCEPT ![cur.srv] = None]
  /\ Finish(Returned(NoneResp))
  /\ UNCHANGED <<cur, osVars, pipeVars, PROCESSES, rmVars, rwrVars, hookIdx,
                 idVars, hangups, resolverVars>>

\* ------------------------------------------------------------- exit hook
\* The program ends; atexit runs terminate_processes.
AtExit ==
  /\ pc = "idle"
  /\ pc' = "hook"
  /\ hookIdx' = 1
  /\ UNCHANGED <<cur, last, osVars, pipeVars, regVars, rmVars, rwrVars, idVars,
                 hangups, resolverVars>>

\* Line 83: process.terminate() on the next registered handle.
HookTerminate ==
  /\ pc = "hook"
  /\ hookIdx <= Len(PROCESSES)
  /\ signals' = PopenTerminate(PROCESSES[hookIdx])
  /\ pc' = "hook_wait"
  /\ UNCHANGED <<cur, last, alive, owner, nextPid, pipeVars, regVars, rmVars,
                 rwrVars, hookIdx, idVars, hangups, resolverVars>>

\* Line 84: process.wait() returns once that child has exited.
HookWait ==
  /\ pc = "hook_wait"
  /\ alive[PROCESSES[hookIdx]] = "exited"
  /\ hookIdx' = hookIdx + 1
  /\ pc' = "hook"
  /\ UNCHANGED <<cur, last, osVars, pipeVars, regVars, rmVars, rwrVars, idVars,
                 hangups, resolverVars>>

\* The loop is over: the hook returns and the interpreter exits.
HookDone ==
  /\ pc = "hook"
  /\ hookIdx > Len(PROCESSES)
  /\ pc' = "exited"
  /\ UNCHANGED <<cur, last, osVars, pipeVars, regVars, rmVars, rwrVars,
                 hookIdx, idVars, hangups, resolverVars>>

\* The caller thread: the methods of the servers in SS and their steps.
CallerNext(SS) ==
  \/ \E s \in SS : start_process(s)
  \/ \E s \in SS, m \in Requests : send_message(s, m)
  \/ \E s \in SS, t \in BOOLEAN, eb \in BOOLEAN : receive_message(s, t, eb)
  \/ \E s \in SS, m \in Requests : send_and_receive(s, m)
  \/ \E s \in SS, mr \in 0..MaxRetry : receive_with_retry(s, mr)
  \/ Select
  \/ Poll
  \/ \E s \in SS : terminate(s)
  \/ TerminateReturn
  \/ Continue

HookNext ==
  \/ AtExit
  \/ HookTerminate
  \/ HookWait
  \/ HookDone

\* The engines: reading requests and exiting; writing output.
ChildNext ==
  \/ \E p \in Pids : ChildReadStdin(p)
  \/ \E p \in Pids : ChildExit(p)

ChildOutput ==
  \/ \E p \in Pids, m \in Messages : ChildWriteStdout(p, m)
  \/ \E p \in Pids, m \in Messages, k \in 1..MaxPipe :
       ChildWriteFirstPart(p, m, k)
  \/ \E p \in Pids : ChildWriteRest(p)
  \/ \E p \in Pids : ChildWriteStderr(p)

\* ------------------------------------------------------- abrupt death
\* Line 28, run in the child between fork and exec (preexec_fn): SIGHUP is
\* ignored, and an ignored signal stays ignored across exec.
SighupDisposition == "SIG_IGN"

\* The parent is killed (SIGKILL, a crash of the interpreter): no atexit
\* hook runs and no statement of the program runs any more.
ParentDies ==
  /\ pc \notin {"exited", "killed"}
  /\ pc' = "killed"
  /\ UNCHANGED <<cur, last, osVars, hangups, pipeVars, regVars, rmVars,
                 rwrVars, hookIdx, idVars, resolverVars>>

\* After the parent's death its terminal hangs up: SIGHUP is sent to child
\* p, which dies of it unless it ignores the signal.
Hangup(p) ==
  /\ pc = "killed"
  /\ alive[p] # "unborn"
  /\ hangups[p] = 0
  /\ hangups' = [hangups EXCEPT ![p] = 1]
  /\ alive' = IF alive[p] = "running" /\ SighupDisposition # "SIG_IGN"
              THEN [alive EXCEPT ![p] = "exited"]
              ELSE alive
  /\ UNCHANGED <<owner, signals, nextPid, pipeVars, regVars, callVars,
                 rmVars, rwrVars, hookIdx, idVars, resolverVars>>

CrashNext ==
  \/ ParentDies
  \/ \E p \in Pids : Hangup(p)

\* The caller asks a server of SS for a request id.
IdNext(SS) == \E s \in SS : get_request_id(s)

Next ==
  CallerNext(Servers) \/ IdNext(Servers) \/ HookNext \/ ChildNext
    \/ ChildOutput \/ CrashNext

\* Every server, every engine step.
Spec == Init /\ [][Next]_vars

\* One server and the engines it spawns, with all their input and output.
ServerNext == CallerNext({1}) \/ HookNext \/ ChildNext \/ ChildOutput
ServerSpec == Init /\ [][ServerNext]_vars

\* Every server, with engines that write nothing and no request ids: what
\* the process lifecycle and the registry depend on.
FleetNext == CallerNext(Servers) \/ HookNext \/ ChildNext
FleetSpec == Init /\ [][FleetNext]_vars

\* One server that also hands out request ids, with engines that write
\* nothing.
IdServerNext == CallerNext({1}) \/ IdNext({1}) \/ HookNext \/ ChildNext
IdServerSpec == Init /\ [][IdServerNext]_vars

\* The fleet, and a parent that can be killed at any point.
CrashSpec == Init /\ [][FleetNext \/ CrashNext]_vars

\* ------------------------------------------------------ binary resolver
\* BINARIES, lines 15-21: platform tuple -> release file name.
BinaryKeys == {<<"darwin", "64bit">>, <<"darwin", "aarch64">>,
               <<"linux", "64bit">>, <<"linux", "aarch64">>,
               <<"linux", "64bit", "alpine">>}
BINARIES ==
  [k \in BinaryKeys |->
     CASE k = <<"darwin", "64bit">> -> "pkl-macos-amd64"
       [] k = <<"darwin", "aarch64">> -> "pkl-macos-aarch64"
       [] k = <<"linux", "64bit">> -> "pkl-linux-amd64"
       [] k = <<"linux", "aarch64">> -> "pkl-linux-aarch64"
       [] k = <<"linux", "64bit", "alpine">> -> "pkl-alpine-linux-amd64"]

\* What detect_system() and is_alpine_linux() can report.
OSNames == {"darwin", "linux", "windows"}
Archs == {"64bit", "aarch64", "32bit"}
Hosts == [os : OSNames, arch : Archs, alpine : BOOLEAN]

\* Lines 53-58: the lookup key get_binary_path builds for host h.
BinaryKey(h) ==
  LET os_name == IF h.os = "linux" /\ h.alpine THEN "alpine" ELSE h.os
      binary_key == <<os_name, h.arch>>
  IN IF binary_key = <<"linux", "64bit">> /\ h.alpine
     THEN binary_key \o <<"alpine">>
     ELSE binary_key

\* How the download of line 69 can end: the bytes of the release, an error
\* page (requests.get does not raise on a non-success status), or an
\* exception of requests.get.
NetOutcomes == {"ok", "http_error", "network_failure"}

\* WithExec with the "| stat.S_IXUSR" lost: chmod re-applies the old mode.
WithExecLost(mode) == mode

\* Line 72: the mode with the owner-execute bit set, the other bits kept.
WithExec(mode) == mode \cup {"S_IXUSR"}

get_binary_path(net) ==
  /\ rcalls < MaxResolve
  /\ rcalls' = rcalls + 1
  /\ LET key == BinaryKey(host)
     IN IF key \notin DOMAIN BINARIES
        THEN /\ rlast' = [kind |-> "OSError", name |-> "none",
                          found |-> file.exists, downloaded |-> FALSE]
             /\ UNCHANGED <<file, mkdirs, downloads, chmods, rok>>
        ELSE IF ~file.exists /\ net = "network_failure"
        THEN /\ mkdirs' = mkdirs + 1
             /\ rlast' = [kind |-> "ConnectionError", name |-> "none",
                          found |-> FALSE, downloaded |-> FALSE]
             /\ UNCHANGED <<file, downloads, chmods, rok>>
        ELSE /\ mkdirs' = IF file.exists THEN mkdirs ELSE mkdirs + 1
             /\ downloads' = IF file.exists THEN downloads ELSE downloads + 1
             /\ file' = IF file.exists
                        THEN [file EXCEPT !.mode = WithExec(@)]
                        ELSE [exists |-> TRUE,
                              mode |-> WithExec(CreatedMode),
                              content |-> IF net = "ok" THEN "binary"
                                          ELSE "error_page"]
             /\ chmods' = chmods + 1
             /\ rok' = rok + 1
             /\ rlast' = [kind |-> "path", name |-> BINARIES[key],
                          found |-> file.exists,
                          downloaded |-> ~file.exists]
  /\ UNCHANGED <<host, osVars, pipeVars, regVars, callVars, rmVars, rwrVars,
                 hookIdx, idVars, hangups>>

\* A resolver run: any host, the local binary path absent or present with
\* any owner permissions, then get_binary_path calls.
ResolverInit ==
  /\ SupervisorInit
  /\ host \in Hosts
  /\ file \in {NoFile} \cup [exists : {TRUE}, mode : SUBSET OwnerBits,
                             content : {"binary"}]
  /\ mkdirs = 0
  /\ downloads = 0
  /\ chmods = 0
  /\ rcalls = 0
  /\ rok = 0
  /\ rlast = NoResult

ResolverNext == \E net \in NetOutcomes : get_binary_path(net)

ResolverSpec == ResolverInit /\ [][ResolverNext]_vars

\* ================================================================ claims
TransportOps == {"send_message", "receive_message", "send_and_receive",
                 "receive_with_retry"}
Empty(v) == v.isNone \/ v.msgs = <<>>

\* C1: a transport call (send_message, receive_message, send_and_receive,
\* receive_with_retry) made while the server holds no handle ends at once
\* with the not-started ValueError; it spawns nothing, registers nothing,
\* leaves the handle unset and touches no pipe.
NotStartedFails ==
  [][(/\ pc = "idle"
      /\ pc' # "idle"
      /\ cur'.op \in TransportOps
      /\ process[cur'.srv] = None)
     => (/\ pc' = "done"
         /\ last'.kind = "ValueError"
         /\ process'[cur'.srv] = None
         /\ UNCHANGED <<osVars, pipeVars, regVars>>)]_vars

\* A receive_with_retry failed on a server whose handle was cleared by a
\* terminate (it owned a process before).
NotStartedAfterTerminate ==
  /\ pc = "done"
  /\ cur.op = "receive_with_retry"
  /\ last.kind = "ValueError"
  /\ process[cur.srv] = None
  /\ \E p \in Pids : owner[p] = cur.srv

\* C2: a start_process call on a server that already holds a handle spawns
\* nothing, keeps the handle and leaves the registry as it is; a server
\* never has more than one running child.
StartIdempotent ==
  /\ [](\A s \in Servers :
          Cardinality({p \in Pids : owner[p] = s /\ alive[p] = "running"}) <= 1)
  /\ [][(/\ pc = "idle"
         /\ pc' = "done"
         /\ cur'.op = "start_process"
         /\ process[cur'.srv] # None)
        => UNCHANGED <<osVars, pipeVars, regVars>>]_vars

\* A start_process call returned on a server whose child had been running
\* long enough to have written output: the call found the handle active.
StartWhileActive ==
  /\ pc = "done"
  /\ cur.op = "start_process"
  /\ process[cur.srv] # None
  /\ alive[process[cur.srv]] = "running"
  /\ stdout[cur.srv] # <<>>

\* C3: a handle is cleared only by the terminate() of its server, after the
\* child has exited, so every running child is the active handle of the
\* server that spawned it; a start_process on a server without a handle
\* spawns a process that was never registered before, registers it and
\* makes it the handle.
TerminateThenFresh ==
  /\ [](\A p \in Pids : alive[p] = "running" => process[owner[p]] = p)
  /\ [][\A s \in Servers :
          /\ (process[s] # None /\ process'[s] = None)
               => (/\ pc = "term_wait"
                   /\ cur.srv = s
                   /\ alive[process[s]] = "exited"
                   /\ pc' = "done")
          /\ (process[s] = None /\ process'[s] # None)
               => (/\ cur'.op = "start_process"
                   /\ cur'.srv = s
                   /\ process'[s] \notin Range(PROCESSES)
                   /\ alive[process'[s]] = "unborn"
                   /\ alive'[process'[s]] = "running"
                   /\ PROCESSES' = Append(PROCESSES, process'[s]))]_vars

\* A server runs its second child: the first was terminated and has exited.
Restarted ==
  \E s \in Servers, q \in Pids :
    /\ process[s] # None
    /\ process[s] # q
    /\ alive[process[s]] = "running"
    /\ owner[q] = s
    /\ alive[q] = "exited"
    /\ signals[q] = 1

\* C4: a receive_message call that finds the child exited with no stdout
\* chunk collected (the branch that prints "Process has terminated")
\* returns to its caller; it does not raise.
ExitedReceiveReturns ==
  (pc = "done" /\ sink.notice) => last.kind = "return"

\* C5: a receive_with_retry(max_retry) call that returns has called
\* receive_message at most max_retry times, and when what it returns is
\* empty it has used the whole budget (it called again whenever the result
\* was empty and calls were left).
RetryWithinBudget ==
  (pc = "done" /\ cur.op = "receive_with_retry" /\ last.kind = "return")
    => /\ ncalls <= cur.max_retry
       /\ Empty(last.val) => ncalls >= cur.max_retry

\* C6: a receive_with_retry call that returns an empty result with its
\* budget used up has emitted the "Max retry reached." warning.
ExhaustedWarns ==
  (/\ pc = "done"
   /\ cur.op = "receive_with_retry"
   /\ last.kind = "return"
   /\ Empty(last.val)
   /\ ncalls >= cur.max_retry)
  => warned

\* C7: in receive_message(timeout=T, empty_break=True), a wait that elapses
\* with nothing readable ends the call: it returns None, raises nothing and
\* starts no further wait.
TimeoutReturnsEmpty ==
  [][(/\ pc = "select"
      /\ cur.op = "receive_message"
      /\ cur.timeout
      /\ cur.empty_break
      /\ Ready(cur.srv) = {}
      /\ pc' # "select")
     => (pc' = "done" /\ last' = Returned(NoneResp))]_vars

\* Such a call has returned None while its child is still running.
TimedOutEmpty ==
  /\ pc = "done"
  /\ cur.op = "receive_message"
  /\ cur.timeout
  /\ cur.empty_break
  /\ last = Returned(NoneResp)
  /\ alive[process[cur.srv]] = "running"

\* C8 as stated: once the exit hook has finished, every registered process
\* has received exactly one termination signal and none is still running.
HookSignalsExactlyOnce ==
  pc = "exited"
    => \A i \in 1..Len(PROCESSES) :
         signals[PROCESSES[i]] = 1 /\ alive[PROCESSES[i]] = "exited"

\* C8 as amended: no process ever receives more than one termination
\* signal; the registry lists every process ever spawned, in spawn order
\* (it is only appended to); once the exit hook has finished, no spawned
\* process is still running.
HookSignalsAtMostOnce ==
  /\ \A p \in Pids : signals[p] <= 1
  /\ Len(PROCESSES) = nextPid - 1
  /\ \A i \in 1..Len(PROCESSES) : PROCESSES[i] = i
  /\ pc \in {"hook", "hook_wait", "exited"}
       => \A i \in 1..Len(PROCESSES) :
            i < hookIdx => alive[PROCESSES[i]] = "exited"
  /\ pc = "exited" => \A p \in Pids : alive[p] # "running"

\* The hook has finished over the handles of two servers, one of them
\* terminated by its server before, each signalled once.
HookOverTwoServers ==
  /\ pc = "exited"
  /\ Len(PROCESSES) >= 2
  /\ owner[1] # owner[2]
  /\ process[owner[1]] = None
  /\ process[owner[2]] = 2
  /\ signals[1] = 1
  /\ signals[2] = 1

\* The platform tuple of a host: (OS, architecture), with the libc variant
\* on a Linux host that has the Alpine marker file.
PlatformTuple(h) ==
  IF h.os = "linux" /\ h.alpine THEN <<h.os, h.arch, "alpine">>
  ELSE <<h.os, h.arch>>

\* C9: on a host whose platform tuple is a key of BINARIES, get_binary_path
\* does not fail as unsupported and the path it returns has the file name
\* of that table entry; on any other host it fails with the
\* unsupported-platform OSError, having made no directory, no download and
\* no chmod.
ResolvesTableEntry ==
  rcalls > 0
    => IF PlatformTuple(host) \in BinaryKeys
       THEN /\ rlast.kind # "OSError"
            /\ rlast.kind = "path"
                 => rlast.name = BINARIES[PlatformTuple(host)]
       ELSE /\ rlast.kind = "OSError"
            /\ mkdirs = 0
            /\ downloads = 0
            /\ chmods = 0

\* C10: over any number of get_binary_path calls at most one download is
\* written, by a call that found the file absent (a call that finds the
\* file present downloads nothing); every call that returns a path has
\* called chmod, and after it the file exists and is owner-executable.
ResolveIdempotent ==
  /\ downloads <= 1
  /\ chmods = rok
  /\ rlast.kind = "path"
       => /\ file.exists
          /\ "S_IXUSR" \in file.mode
          /\ rlast.downloaded <=> ~rlast.found
          /\ rlast.downloaded => downloads = 1
  /\ (rok > 0 /\ downloads = 0) => rlast.found

\* Two calls returned the path: the first downloaded, the second reused.
ResolvedTwice ==
  /\ rok = 2
  /\ downloads = 1
  /\ chmods = 2
  /\ rlast.kind = "path"
  /\ rlast.found

\* C11: a download that did not deliver the release (a non-success HTTP
\* response or a network failure) makes get_binary_path fail: a call that
\* downloaded and returned a path wrote the release binary, and no file
\* other than the binary is ever left at the local binary path for a later
\* call to accept.
DownloadFailurePropagates ==
  /\ (rlast.kind = "path" /\ rlast.downloaded) => file.content = "binary"
  /\ file.exists => file.content = "binary"

\* C12: the messages a receive_message call returns are the first of the
\* messages the engine wrote to the handle's stdout and no call returned
\* before, in the order the engine wrote them; once returned they are not
\* returned again. (So the returns of successive calls, put end to end,
\* list the engine's messages in the order written, none twice.)
InOrderDelivery ==
  [][(/\ pc \in {"select", "poll"}
      /\ pc' = "done"
      /\ last'.kind = "return"
      /\ ~last'.val.isNone)
     => LET s == cur.srv
            ms == last'.val.msgs
        IN /\ Len(ms) <= Len(pending[s])
           /\ ms = SubSeq(pending[s], 1, Len(ms))
           /\ pending'[s] =
                SubSeq(pending[s], Len(ms) + 1, Len(pending[s]))]_vars

OneChunkPerCall ==
  /\ Len(outputs) <= 1
  /\ pc \in {"select", "poll"} => outputs = <<>>
  /\ (pc = "done" /\ last.kind = "return" /\ ~last.val.isNone)
       => /\ Len(outputs) = 1
          /\ last.val.msgs = Unpack(outputs[1])
  /\ (pc = "done" /\ sink.notice)
       => (outputs = <<>> /\ last.kind = "AssertionError")
  /\ (pc = "done" /\ last.kind = "AssertionError") => Len(outputs) # 1

\* A call returned the two messages of the one chunk it collected.
OneChunkDecoded ==
  /\ pc = "done"
  /\ cur.op = "receive_message"
  /\ last.kind = "return"
  /\ Len(outputs) = 1
  /\ Len(last.val.msgs) = 2

\* C15: no byte read from the error stream is in a collected chunk or in a
\* returned message; the error-stream bytes a receive_message call reads
\* are in its diagnostic sink when the read is done.
StderrOnlyToSink ==
  /\ [](/\ \A i \in 1..Len(outputs) : ErrChar \notin Range(outputs[i])
        /\ \A i \in 1..Len(last.val.msgs) :
             ErrChar \notin Range(last.val.msgs[i].items))
  /\ [][\A s \in Servers :
          (stderr[s] # <<>> /\ stderr'[s] = <<>> /\ process'[s] = process[s])
            => (/\ pc = "select"
                /\ cur.srv = s
                /\ Range(stderr[s]) \subseteq sink'.text)]_vars

\* A call read both streams in one turn: it returned a message of the
\* stdout chunk and printed the error-stream text.
BothStreamsRead ==
  /\ pc = "done"
  /\ last.kind = "return"
  /\ Len(last.val.msgs) >= 1
  /\ ErrChar \in sink.text

\* C16: on every server the ids returned so far are 1, 2, ..., k in that
\* order (the k-th call returned k, no id twice) and the counter is k + 1;
\* the counter starts at 1 and only a get_request_id call changes it, by
\* one, leaving processes, pipes, handle and registry alone.
RequestIdsCount ==
  /\ [](\A s \in Servers :
          /\ issued[s] = [i \in 1..Len(issued[s]) |-> i]
          /\ next_request_id[s] = Len(issued[s]) + 1)
  /\ [][\A s \in Servers :
          next_request_id'[s] # next_request_id[s]
            => (/\ next_request_id'[s] = next_request_id[s] + 1
                /\ issued'[s] = Append(issued[s], next_request_id[s])
                /\ UNCHANGED <<osVars, pipeVars, regVars, callVars>>)]_vars

\* A server has handed out the ids 1 and 2 and runs its second process.
IdsAcrossRestart ==
  \E s \in Servers :
    /\ issued[s] = <<1, 2>>
    /\ process[s] = 2
    /\ owner[1] = s
    /\ alive[2] = "running"

\* C17: after the parent was killed without its exit hook running, no
\* engine process that the hangup reached is still running.
CrashKillsChildren ==
  pc = "killed"
    => \A p \in Pids : hangups[p] = 1 => alive[p] # "running"

\* C18: a receive_with_retry call that emitted the "Max retry reached."
\* warning returned an empty result.
WarnsOnlyWhenEmpty ==
  (pc = "done" /\ cur.op = "receive_with_retry" /\ warned)
    => Empty(last.val)

\* C19: the handle of a server changes from set to anything else only in
\* the return of its own terminate(); while a handle is set, whether its
\* child is running or has exited, start_process spawns and registers
\* nothing and no transport call fails as not started.
HandleIgnoresLiveness ==
  /\ [][\A s \in Servers :
          (process[s] # None /\ process'[s] # process[s])
            => (/\ pc = "term_wait"
                /\ cur.op = "terminate"
                /\ cur.srv = s
                /\ process'[s] = None)]_vars
  /\ [][(/\ pc = "idle"
         /\ pc' # "idle"
         /\ cur'.srv \in Servers
         /\ process[cur'.srv] # None
         /\ alive[process[cur'.srv]] = "exited")
        => (/\ cur'.op = "start_process"
               => (pc' = "done" /\ UNCHANGED <<osVars, regVars>>)
            /\ last'.kind # "ValueError")]_vars

\* A start_process call returned on a server whose child had exited on its
\* own: the handle is still that child and nothing was spawned.
StartAfterSilentExit ==
  /\ pc = "done"
  /\ cur.op = "start_process"
  /\ process[cur.srv] = 1
  /\ alive[1] = "exited"
  /\ signals[1] = 0
  /\ nextPid = 2

\* C20: a terminate() call on a server without a handle ends at once with
\* an error (AttributeError); it signals no process and leaves processes,
\* pipes, handle, registry and request id counter as they were, so that
\* after it the server is in the state it was in before, in which
\* start_process spawns.
TerminateUnstartedFails ==
  [][(/\ pc = "idle"
      /\ pc' # "idle"
      /\ cur'.op = "terminate"
      /\ process[cur'.srv] = None)
     => (/\ pc' = "done"
         /\ last'.kind = "AttributeError"
         /\ UNCHANGED <<osVars, pipeVars, regVars, idVars, hookIdx>>)]_vars

\* A second terminate() in a row failed: the server had owned a process,
\* and a process can still be spawned.
TerminatedTwice ==
  /\ pc = "done"
  /\ cur.op = "terminate"
  /\ last.kind = "AttributeError"
  /\ \E p \in Pids : owner[p] = cur.srv /\ signals[p] = 1
  /\ nextPid <= MaxProcs

TypeOK ==
  /\ pc \in {"idle", "select", "poll", "term_wait", "done", "hook",
             "hook_wait", "exited", "killed"}
  /\ process \in [Servers -> Pids \cup {None}]
  /\ nextPid \in 1..(MaxProcs + 1)
  /\ \A s \in Servers : Len(stdout[s]) <= MaxPipe /\ Len(stdin[s]) <= MaxIn

====
